---------------------------- MODULE Spec2Model ----------------------------
(***************************************************************************)
(* A model of giantswarm/certificates, pkg/certs/searcher.go: the Searcher *)
(* that watches the secret store for the secret of one (cluster,           *)
(* certificate) pair, decodes it into a TLS value, and runs the searches   *)
(* of a bundle as the tasks of an errgroup under a mutex.                  *)
(* With it k8s.go: the name and the labels of the secret of a certificate. *)
(*                                                                         *)
(* Time is counted in seconds.  A goroutine is a task <<call, member>>;    *)
(* SearchTLS runs its one search on the caller's goroutine, member 1.      *)
(***************************************************************************)
EXTENDS Integers, Sequences, FiniteSets, TLC

(***************************************************************************)
(* Bounds of the model.                                                    *)
(***************************************************************************)
\* The longest a goroutine whose timer channel is ready stays unscheduled.
Slack == 1

\* The most secrets a producer names and labels in one run.
MaxProduced == 2

(***************************************************************************)
(* Program constants.                                                      *)
(***************************************************************************)
DefaultWatchTimeout == 3

certificateLabel == "giantswarm.io/certificate"
clusterIDLabel == "giantswarm.io/cluster-id"
legacyCertificateLabel == "clusterComponent"
legacyClusterIDLabel == "clusterID"
\* searcher.go names the cluster label clusterLabel; its value is set
\* outside the files at hand, so the model keeps the name.
clusterLabel == "clusterLabel"

AppOperatorAPICert == "AppOperatorAPICert"
APICert == "api"
CalicoCert == "calico"
CalicoEtcdClientCert == "calico-etcd-client"
ClusterOperatorAPICert == "cluster-operator-api"
EtcdCert == "etcd"
FlanneldEtcdClientCert == "flanneld-etcd-client"
NodeOperatorCert == "node-operator"
PrometheusCert == "prometheus"
ServiceAccountCert == "service-account"
WorkerCert == "worker"

AllCerts ==
    <<APICert, CalicoCert, CalicoEtcdClientCert, ClusterOperatorAPICert, EtcdCert,
      FlanneldEtcdClientCert, NodeOperatorCert, PrometheusCert, ServiceAccountCert,
      WorkerCert>>

(***************************************************************************)
(* k8s.go: the name and the labels of the secret of one certificate.       *)
(***************************************************************************)
\* The name with the kind before the cluster ID.
K8sSecretNameKindFirst(clusterID, certificate) == certificate \o "-" \o clusterID

\* fmt.Sprintf("%s-%s", clusterID, certificate)
K8sSecretName(clusterID, certificate) == clusterID \o "-" \o certificate

\* The legacy labels with their values exchanged.
K8sSecretLabelsLegacyExchanged(clusterID, certificate) ==
    (certificateLabel :> certificate) @@ (clusterIDLabel :> clusterID)
    @@ (legacyCertificateLabel :> clusterID) @@ (legacyClusterIDLabel :> certificate)

K8sSecretLabels(clusterID, certificate) ==
    (certificateLabel :> certificate) @@ (clusterIDLabel :> clusterID)
    @@ (legacyCertificateLabel :> certificate) @@ (legacyClusterIDLabel :> clusterID)

\* watch.EventType
Added == "ADDED"
Modified == "MODIFIED"
Deleted == "DELETED"
Error == "ERROR"

\* The error kinds searcher.go names.
invalidConfigError == "invalidConfigError"
executionFailedError == "executionFailedError"
wrongTypeError == "wrongTypeError"
timeoutError == "timeoutError"
invalidSecretError == "invalidSecretError"
\* The kind of an error the store client itself reports.
backendError == "backendError"

(***************************************************************************)
(* Errors.  An error is its kind, its message (the format's arguments) and *)
(* the depth of its microerror stack; NoErr is Go's nil error.             *)
(***************************************************************************)
NoErr == [kind |-> "nil", msg |-> <<>>, stack |-> 0]

Maskf(kind, msg) == [kind |-> kind, msg |-> msg, stack |-> 1]

Mask(e) == IF e = NoErr THEN NoErr ELSE [e EXCEPT !.stack = @ + 1]

\* The error below every mask.
Cause(e) == [kind |-> e.kind, msg |-> e.msg]

(***************************************************************************)
(* TLS values and the result structs.                                      *)
(***************************************************************************)
NilBytes == <<>>

ZeroTLS == [CA |-> NilBytes, Crt |-> NilBytes, Key |-> NilBytes]

\* The TLS fields of the result structs; "tls" is SearchTLS's own value.
Fields == {"tls", "APIServer", "NodeOperator", "Prometheus"}

ZeroStruct == [f \in Fields |-> ZeroTLS]

(***************************************************************************)
(* The operations and their certificates lists.  The four bundle methods   *)
(* share one body and differ in the list alone; each list of the source    *)
(* has one entry.  The body's loop and task group take a list of any       *)
(* length, and "SearchTwoKinds" runs that body on a list of two entries,   *)
(* so that a task has a sibling.                                           *)
(***************************************************************************)
BundleOps == {"SearchAppOperator", "SearchClusterOperator", "SearchDraining",
              "SearchMonitoring", "SearchTwoKinds"}

certificates(req) ==
    CASE req.op = "SearchAppOperator" ->
            <<[TLS |-> "APIServer", Cert |-> AppOperatorAPICert]>>
      [] req.op = "SearchClusterOperator" ->
            <<[TLS |-> "APIServer", Cert |-> ClusterOperatorAPICert]>>
      [] req.op = "SearchDraining" ->
            <<[TLS |-> "NodeOperator", Cert |-> NodeOperatorCert]>>
      [] req.op = "SearchMonitoring" ->
            <<[TLS |-> "Prometheus", Cert |-> PrometheusCert]>>
      [] req.op = "SearchTwoKinds" ->
            <<[TLS |-> "APIServer", Cert |-> ClusterOperatorAPICert],
              [TLS |-> "Prometheus", Cert |-> PrometheusCert]>>
      [] req.op = "SearchTLS" ->
            <<[TLS |-> "tls", Cert |-> req.cert]>>
      [] OTHER -> <<>>

\* The fields of the struct an operation returns.
FieldsOf(req) == {certificates(req)[i].TLS : i \in DOMAIN certificates(req)}

(***************************************************************************)
(* Inputs.                                                                 *)
(***************************************************************************)
ClusterIDs == {"c-abc12", "c-xyz34"}

Calls == {"call1", "call2"}

Members == {1, 2}

Tasks == Calls \X Members

NoRequest == [op |-> "none"]

SingleRequests ==
    [op : {"SearchTLS"}, clusterID : ClusterIDs, cert : {ClusterOperatorAPICert, PrometheusCert}]
    \cup [op : BundleOps \ {"SearchTwoKinds"}, clusterID : ClusterIDs, cert : {""}]

\* The requests of the calls that run two at a time.
ConcurrentRequests ==
    {r \in SingleRequests :
        /\ r.op \in {"SearchTLS", "SearchClusterOperator"}
        /\ r.cert \in {"", ClusterOperatorAPICert}}

TwoKindsRequests == [op : {"SearchTwoKinds"}, clusterID : ClusterIDs, cert : {""}]

\* A certificate kind other than ce.
OtherCert(ce) == IF ce = PrometheusCert THEN NodeOperatorCert ELSE PrometheusCert

DataKeys == {"ca", "crt", "key"}

Secret(cl, ce, keys) ==
    [goType |-> "*corev1.Secret", isNil |-> FALSE,
     Labels |-> (clusterLabel :> cl) @@ (certificateLabel :> ce),
     Data   |-> [k \in keys |-> <<k, cl, ce>>]]

\* A nil *corev1.Secret, and an object of another type.
NilSecret == [goType |-> "*corev1.Secret", isNil |-> TRUE]
NotASecret == [goType |-> "*corev1.Pod", isNil |-> FALSE]
Status == [goType |-> "*metav1.Status", isNil |-> FALSE]

\* The secrets the store may deliver to a search for (cl, ce).
SecretsFor(cl, ce) ==
    {Secret(l, c, keys) : l \in ClusterIDs, c \in {ce, OtherCert(ce)}, keys \in SUBSET DataKeys}

EventsFor(cl, ce) ==
    [Type : {Added}, Object : SecretsFor(cl, ce) \cup {NilSecret, NotASecret}]
    \cup [Type : {Deleted, Modified}, Object : {Secret(cl, ce, DataKeys)}]
    \cup [Type : {Error}, Object : {Status}]

Configs == [K8sClient : {"nil", "client"}, Logger : {"nil", "logger"}, WatchTimeout : {0, 1, 2}]

(***************************************************************************)
(* NewSearcher.                                                            *)
(***************************************************************************)
NoSearcher == [k8sClient |-> "nil", logger |-> "nil", watchTimeout |-> 0]

\* NewSearcher that keeps a zero WatchTimeout as it is.
NewSearcherNoDefault(config) ==
    IF config.K8sClient = "nil" \/ config.Logger = "nil"
    THEN [s |-> NoSearcher, err |-> Maskf(invalidConfigError, <<"must not be empty">>)]
    ELSE [s |-> [k8sClient |-> config.K8sClient, logger |-> config.Logger,
                 watchTimeout |-> config.WatchTimeout],
          err |-> NoErr]

NewSearcher(config) ==
    IF config.K8sClient = "nil"
    THEN [s |-> NoSearcher, err |-> Maskf(invalidConfigError, <<"K8sClient must not be empty">>)]
    ELSE IF config.Logger = "nil"
    THEN [s |-> NoSearcher, err |-> Maskf(invalidConfigError, <<"Logger must not be empty">>)]
    ELSE [s |-> [k8sClient |-> config.K8sClient, logger |-> config.Logger,
                 watchTimeout |-> IF config.WatchTimeout = 0 THEN DefaultWatchTimeout
                                  ELSE config.WatchTimeout],
          err |-> NoErr]

(***************************************************************************)
(* search: the selector, and what each wakeup of the select does.          *)
(***************************************************************************)
LabelSelector(cert, clusterID) == <<certificateLabel, cert, clusterLabel, clusterID>>

\* The loop goes round again.
Continue == [done |-> FALSE, secret |-> NilSecret, err |-> NoErr]

Return(secretv, errv) == [done |-> TRUE, secret |-> secretv, err |-> errv]

\* The closed channel reported as a timeout.
closedChannelAsTimeout(selector) ==
    Maskf(timeoutError, <<"watching secrets", selector, "unexpected closed channel">>)

closedChannelError(selector) ==
    Maskf(executionFailedError, <<"watching secrets", selector, "unexpected closed channel">>)

errorEventError(selector, object) ==
    Maskf(executionFailedError, <<"watching secrets", selector, object.goType>>)

timerError(selector) == Maskf(timeoutError, <<"waiting secrets", selector>>)

\* The switch with a Modified event handled as an Added event is.
onEventModifiedAsAdded(event, selector) ==
    CASE event.Type \in {Added, Modified} ->
            IF event.Object.goType # "*corev1.Secret" \/ event.Object.isNil
            THEN Return(NilSecret, Maskf(wrongTypeError, <<"expected", "*corev1.Secret", "got", event.Object.goType>>))
            ELSE Return(event.Object, NoErr)
      [] event.Type = Deleted -> Continue
      [] event.Type = Error -> Return(NilSecret, errorEventError(selector, event.Object))
      [] OTHER -> Continue

\* The switch with an Added event of the wrong payload passed over.
onEventSkipsWrongType(event, selector) ==
    CASE event.Type = Added ->
            IF event.Object.goType # "*corev1.Secret" \/ event.Object.isNil
            THEN Continue
            ELSE Return(event.Object, NoErr)
      [] event.Type = Deleted -> Continue
      [] event.Type = Error -> Return(NilSecret, errorEventError(selector, event.Object))
      [] OTHER -> Continue

onEvent(event, selector) ==
    CASE event.Type = Added ->
            IF event.Object.goType # "*corev1.Secret" \/ event.Object.isNil
            THEN Return(NilSecret, Maskf(wrongTypeError, <<"expected", "*corev1.Secret", "got", event.Object.goType>>))
            ELSE Return(event.Object, NoErr)
      [] event.Type = Deleted -> Continue
      [] event.Type = Error -> Return(NilSecret, errorEventError(selector, event.Object))
      [] OTHER -> Continue

\* The error Watch returns when it cannot open a session.
watchError == [kind |-> backendError, msg |-> <<"watch">>, stack |-> 0]

\* The error of Watch wrapped in an error that names the selector.
watchFailedErrorWithSelector(selector, e) ==
    Maskf(executionFailedError, <<"watching secrets", selector, e.kind>>)

\* Line 250: the error of Watch goes up masked, as it is.
watchFailedError(selector, e) == Mask(e)

\* search with no deferred Stop on its way out.
deferStopForgotten(w) == w

\* defer watcher.Stop()
deferStop(w) == [open |-> FALSE, stops |-> w.stops + 1]

(***************************************************************************)
(* fillTLSFromSecret.  A Go map gives the zero value for a missing key.    *)
(***************************************************************************)
Label(secretv, key) == IF key \in DOMAIN secretv.Labels THEN secretv.Labels[key] ELSE ""

Data(secretv, key) == IF key \in DOMAIN secretv.Data THEN secretv.Data[key] ELSE NilBytes

keyMissing(key) == Maskf(invalidSecretError, <<"key missing", key>>)

\* fillTLSFromSecret with the "key" data read into Crt.
fillTLSFromSecretCrtFromKey(tls, secretv, cluster, cert) ==
    IF cluster # Label(secretv, clusterLabel)
          \/ cert # Label(secretv, certificateLabel)
          \/ ~(DataKeys \subseteq DOMAIN secretv.Data)
    THEN [tls |-> tls, err |-> Maskf(invalidSecretError, <<"invalid">>)]
    ELSE [tls |-> [CA |-> Data(secretv, "ca"), Crt |-> Data(secretv, "key"),
                   Key |-> Data(secretv, "key")],
          err |-> NoErr]

\* fillTLSFromSecret with no check of the certificate label.
fillTLSFromSecretAnyCertificate(tls, secretv, cluster, cert) ==
    LET full == [CA |-> Data(secretv, "ca"), Crt |-> Data(secretv, "crt"),
                 Key |-> Data(secretv, "key")]
    IN  IF cluster # Label(secretv, clusterLabel)
        THEN [tls |-> tls, err |-> Maskf(invalidSecretError,
                 <<"expected cluster", cluster, Label(secretv, clusterLabel)>>)]
        ELSE IF ~(DataKeys \subseteq DOMAIN secretv.Data)
        THEN [tls |-> tls, err |-> keyMissing("ca")]
        ELSE [tls |-> full, err |-> NoErr]

fillTLSFromSecret(tls, secretv, cluster, cert) ==
    LET withCA  == [tls EXCEPT !.CA = Data(secretv, "ca")]
        withCrt == [withCA EXCEPT !.Crt = Data(secretv, "crt")]
        withKey == [withCrt EXCEPT !.Key = Data(secretv, "key")]
    IN  IF cluster # Label(secretv, clusterLabel)
        THEN [tls |-> tls, err |-> Maskf(invalidSecretError,
                 <<"expected cluster", cluster, Label(secretv, clusterLabel)>>)]
        ELSE IF cert # Label(secretv, certificateLabel)
        THEN [tls |-> tls, err |-> Maskf(invalidSecretError,
                 <<"expected certificate", cert, Label(secretv, certificateLabel)>>)]
        ELSE IF "ca" \notin DOMAIN secretv.Data
        THEN [tls |-> withCA, err |-> keyMissing("ca")]
        ELSE IF "crt" \notin DOMAIN secretv.Data
        THEN [tls |-> withCrt, err |-> keyMissing("crt")]
        ELSE IF "key" \notin DOMAIN secretv.Data
        THEN [tls |-> withKey, err |-> keyMissing("key")]
        ELSE [tls |-> withKey, err |-> NoErr]

(***************************************************************************)
(* What SearchTLS and a bundle method return, and the task group.          *)
(***************************************************************************)
\* SearchTLS returning *tls beside the error.
searchTLSReturnsPartial(tls, e) == [value |-> tls, err |-> Mask(e)]

\* SearchTLS, lines 228-238: TLS{} with the masked error, or *tls.
searchTLSReturn(tls, e) ==
    IF e # NoErr THEN [value |-> ZeroTLS, err |-> Mask(e)]
    ELSE [value |-> tls, err |-> NoErr]

\* A bundle method returning the struct its tasks wrote beside the error.
bundleReturnsPartial(structv, e) == [value |-> structv, err |-> Mask(e)]

\* A bundle method after g.Wait(): the zero struct with the masked error, or
\* the struct the tasks filled.
bundleReturn(structv, e) ==
    IF e # NoErr THEN [value |-> [f \in DOMAIN structv |-> ZeroTLS], err |-> Mask(e)]
    ELSE [value |-> structv, err |-> NoErr]

\* A task group that keeps the last error returned.
groupRecordLast(kept, e) == IF e # NoErr THEN e ELSE kept

\* errgroup.Group: the first error a task returns is kept (errOnce).
groupRecord(kept, e) == IF e # NoErr /\ kept = NoErr THEN e ELSE kept

(***************************************************************************)
(* State.                                                                  *)
(***************************************************************************)
VARIABLES
    config,         \* the Config handed to NewSearcher
    produced,       \* the secrets named and labelled so far, in order
    searcher,       \* the Searcher NewSearcher built, or NoSearcher
    ctorErr,        \* the error NewSearcher returned
    request,        \* per call: the method called and its arguments
    callpc,         \* per call: "idle", "running", "returned"
    result,         \* per call: the result struct the tasks write through c.TLS
    ret,            \* per call: the values returned
    mutex,          \* per call: the member holding m, or 0
    gErr,           \* per call: the error the task group keeps
    gRunning,       \* per call: the tasks of the group that have not returned
    firstFailed,    \* per call: the member whose error reached the group first, or 0
    pc,             \* per task: "none", "watch", "select", "searched", "locked", "done"
    watcher,        \* per task: the watch session, open or not, and its Stop calls
    timer,          \* per task: seconds since the select's time.After was made
    elapsed,        \* per task: seconds since the watch was opened
    timerNoDeleted, \* per task: what timer would be, had no Deleted event arrived
    lastEv,         \* per task: the last wakeup of the select: the event received,
                    \* or one of ChannelClosed, TimerFired, WatchFailed
    secret,         \* per task: the secret search returned
    err,            \* per task: the error search, then the task, returned
    cause           \* per task: the wakeup that ended search

vars == <<config, produced, searcher, ctorErr, request, callpc, result, ret, mutex, gErr, gRunning,
          firstFailed, pc, watcher, timer, elapsed, timerNoDeleted, lastEv,
          secret, err, cause>>

callVars == <<callpc, result, ret, mutex, gErr, gRunning, firstFailed>>
clockVars == <<timer, elapsed, timerNoDeleted>>

\* The wakeups of a search that are no events of the store.
NoEvent == [Type |-> "none", Object |-> NilSecret]
ChannelClosed == [Type |-> "closed", Object |-> NilSecret]
TimerFired == [Type |-> "timeout", Object |-> NilSecret]
WatchFailed == [Type |-> "open", Object |-> Status]

NoWatcher == [open |-> FALSE, stops |-> 0]
NoReturn == [value |-> ZeroTLS, err |-> NoErr]

Entry(t) == certificates(request[t[1]])[t[2]]
ClusterOf(t) == request[t[1]].clusterID
SelectorOf(t) == LabelSelector(Entry(t).Cert, ClusterOf(t))

\* c.TLS pointing into one result struct that every call shares.
TLSPtrShared(c, i) == <<"call1", certificates(request[c])[i].TLS>>

\* c.TLS: the field of the call's own result struct.
TLSPtr(c, i) == <<c, certificates(request[c])[i].TLS>>

Deref(ptr) == result[ptr[1]][ptr[2]]

\* Time saturates one second past the latest moment a timer may fire.
Sat(n) == IF n > searcher.watchTimeout + Slack THEN searcher.watchTimeout + Slack + 1 ELSE n

InitWith(configs, requests) ==
    /\ config \in configs
    /\ produced = <<>>
    /\ searcher = NewSearcher(config).s
    /\ ctorErr = NewSearcher(config).err
    /\ request \in requests
    /\ callpc = [c \in Calls |-> "idle"]
    /\ result = [c \in Calls |-> ZeroStruct]
    /\ ret = [c \in Calls |-> NoReturn]
    /\ mutex = [c \in Calls |-> 0]
    /\ gErr = [c \in Calls |-> NoErr]
    /\ gRunning = [c \in Calls |-> 0]
    /\ firstFailed = [c \in Calls |-> 0]
    /\ pc = [t \in Tasks |-> "none"]
    /\ watcher = [t \in Tasks |-> NoWatcher]
    /\ timer = [t \in Tasks |-> 0]
    /\ elapsed = [t \in Tasks |-> 0]
    /\ timerNoDeleted = [t \in Tasks |-> 0]
    /\ lastEv = [t \in Tasks |-> NoEvent]
    /\ secret = [t \in Tasks |-> NilSecret]
    /\ err = [t \in Tasks |-> NoErr]
    /\ cause = [t \in Tasks |-> "none"]

(***************************************************************************)
(* A call begins: SearchTLS goes into search on the caller's goroutine, a  *)
(* bundle method hands one task per entry of certificates to g.Go.         *)
(***************************************************************************)
StartCall(c) ==
    /\ searcher # NoSearcher
    /\ request[c] # NoRequest
    /\ callpc[c] = "idle"
    /\ callpc' = [callpc EXCEPT ![c] = "running"]
    /\ pc' = [t \in Tasks |->
                IF t[1] = c /\ t[2] \in DOMAIN certificates(request[c]) THEN "watch" ELSE pc[t]]
    /\ gRunning' = [gRunning EXCEPT ![c] =
                IF request[c].op \in BundleOps THEN Len(certificates(request[c])) ELSE 0]
    /\ UNCHANGED <<searcher, ctorErr, config, produced, request, result, ret, mutex, gErr, firstFailed,
                   watcher, clockVars, lastEv, secret, err, cause>>

(***************************************************************************)
(* search.                                                                 *)
(***************************************************************************)
\* search returns: the deferred Stop runs, and the select's timer is dropped.
SearchReturns(t, wakeup, secretv, errv) ==
    /\ pc' = [pc EXCEPT ![t] = "searched"]
    /\ timer' = [timer EXCEPT ![t] = 0]
    /\ lastEv' = [lastEv EXCEPT ![t] = wakeup]
    /\ watcher' = [watcher EXCEPT ![t] = deferStop(@)]
    /\ secret' = [secret EXCEPT ![t] = secretv]
    /\ err' = [err EXCEPT ![t] = errv]
    /\ cause' = [cause EXCEPT ![t] = wakeup.Type]

\* Lines 248-253: Watch opens a session, or fails and search returns at once.
OpenWatch(t) ==
    /\ pc[t] = "watch"
    /\ \/ /\ pc' = [pc EXCEPT ![t] = "select"]
          /\ watcher' = [watcher EXCEPT ![t] = [open |-> TRUE, stops |-> 0]]
          /\ UNCHANGED <<secret, err, cause>>
          /\ UNCHANGED lastEv
       \/ /\ pc' = [pc EXCEPT ![t] = "searched"]
          /\ err' = [err EXCEPT ![t] = watchFailedError(SelectorOf(t), watchError)]
          /\ cause' = [cause EXCEPT ![t] = WatchFailed.Type]
          /\ lastEv' = [lastEv EXCEPT ![t] = WatchFailed]
          /\ UNCHANGED <<watcher, secret>>
    /\ UNCHANGED <<searcher, ctorErr, config, produced, request, callVars, clockVars>>

\* Lines 257-275: an event is received.  Going round the loop makes a new
\* time.After.
RecvEvent(t) ==
    /\ pc[t] = "select"
    /\ watcher[t].open
    /\ \E event \in EventsFor(ClusterOf(t), Entry(t).Cert) :
          LET r == onEvent(event, SelectorOf(t))
          IN  IF r.done
              THEN /\ SearchReturns(t, event, r.secret, r.err)
                   /\ UNCHANGED <<elapsed, timerNoDeleted>>
              ELSE /\ timer' = [timer EXCEPT ![t] = 0]
                   /\ lastEv' = [lastEv EXCEPT ![t] = event]
                   /\ timerNoDeleted' = [timerNoDeleted EXCEPT ![t] =
                                            IF event.Type = Deleted THEN @ ELSE 0]
                   /\ UNCHANGED <<pc, watcher, secret, err, cause, elapsed>>
    /\ UNCHANGED <<searcher, ctorErr, config, produced, request, callVars>>

\* Lines 257-260: the store has closed the channel.
RecvClosed(t) ==
    /\ pc[t] = "select"
    /\ watcher[t].open
    /\ SearchReturns(t, ChannelClosed, NilSecret, closedChannelError(SelectorOf(t)))
    /\ UNCHANGED <<searcher, ctorErr, config, produced, request, callVars, elapsed, timerNoDeleted>>

\* Lines 276-277: the timer of this round of the loop has fired.
Timeout(t) ==
    /\ pc[t] = "select"
    /\ timer[t] >= searcher.watchTimeout
    /\ SearchReturns(t, TimerFired, NilSecret, timerError(SelectorOf(t)))
    /\ UNCHANGED <<searcher, ctorErr, config, produced, request, callVars, elapsed, timerNoDeleted>>

\* A second passes, for every search that is waiting.  A goroutine whose
\* timer has been ready for Slack seconds runs before the next one passes.
Tick ==
    /\ \E t \in Tasks : pc[t] = "select"
    /\ \A t \in Tasks : pc[t] = "select" => timer[t] < searcher.watchTimeout + Slack
    /\ timer' = [t \in Tasks |-> IF pc[t] = "select" THEN timer[t] + 1 ELSE timer[t]]
    /\ elapsed' = [t \in Tasks |-> IF pc[t] = "select" THEN Sat(elapsed[t] + 1) ELSE elapsed[t]]
    /\ timerNoDeleted' = [t \in Tasks |->
                IF pc[t] = "select" THEN Sat(timerNoDeleted[t] + 1) ELSE timerNoDeleted[t]]
    /\ UNCHANGED <<searcher, ctorErr, config, produced, request, callVars, pc, watcher, lastEv, secret, err, cause>>

\* watchTimeout passes for one waiting search, with no account of the time
\* of the others.
TimerFires(t) ==
    /\ pc[t] = "select"
    /\ timer[t] < searcher.watchTimeout
    /\ timer' = [timer EXCEPT ![t] = searcher.watchTimeout]
    /\ UNCHANGED <<searcher, ctorErr, config, produced, request, callVars, pc, watcher, elapsed,
                   timerNoDeleted, lastEv, secret, err, cause>>

(***************************************************************************)
(* SearchTLS after search, lines 229-238.                                  *)
(***************************************************************************)
SearchTLSFinish(c) ==
    LET t == <<c, 1>>
        ptr == TLSPtr(c, 1)
        f == fillTLSFromSecret(Deref(ptr), secret[t], ClusterOf(t), Entry(t).Cert)
    IN  /\ request[c].op = "SearchTLS"
        /\ pc[t] = "searched"
        /\ pc' = [pc EXCEPT ![t] = "done"]
        /\ callpc' = [callpc EXCEPT ![c] = "returned"]
        /\ IF err[t] # NoErr
           THEN /\ ret' = [ret EXCEPT ![c] = searchTLSReturn(Deref(ptr), err[t])]
                /\ UNCHANGED <<result, err>>
           ELSE /\ result' = [result EXCEPT ![ptr[1]][ptr[2]] = f.tls]
                /\ err' = [err EXCEPT ![t] = f.err]
                /\ ret' = [ret EXCEPT ![c] = searchTLSReturn(f.tls, f.err)]
        /\ UNCHANGED <<searcher, ctorErr, config, produced, request, mutex, gErr, gRunning, firstFailed,
                       watcher, clockVars, lastEv, secret, cause>>

(***************************************************************************)
(* A task of a bundle after search, lines 79-90, and g.Wait.               *)
(***************************************************************************)
\* The task returns e to the group.
TaskReturns(t, e) ==
    /\ pc' = [pc EXCEPT ![t] = "done"]
    /\ err' = [err EXCEPT ![t] = e]
    /\ gErr' = [gErr EXCEPT ![t[1]] = groupRecord(@, e)]
    /\ firstFailed' = [firstFailed EXCEPT ![t[1]] = IF e # NoErr /\ @ = 0 THEN t[2] ELSE @]
    /\ gRunning' = [gRunning EXCEPT ![t[1]] = @ - 1]

\* Lines 79-81: search failed.
TaskSearchFailed(t) ==
    /\ request[t[1]].op \in BundleOps
    /\ pc[t] = "searched"
    /\ err[t] # NoErr
    /\ TaskReturns(t, Mask(err[t]))
    /\ UNCHANGED <<searcher, ctorErr, config, produced, request, callpc, result, ret, mutex,
                   watcher, clockVars, lastEv, secret, cause>>

\* A task that returns with the mutex still locked.
UnlockForgotten(holder) == holder

\* m.Unlock(): the mutex is free; 0 is no holder.
Unlock(holder) == 0

\* Line 83: m.Lock().
Lock(t) ==
    /\ request[t[1]].op \in BundleOps
    /\ pc[t] = "searched"
    /\ err[t] = NoErr
    /\ mutex[t[1]] = 0
    /\ mutex' = [mutex EXCEPT ![t[1]] = t[2]]
    /\ pc' = [pc EXCEPT ![t] = "locked"]
    /\ UNCHANGED <<searcher, ctorErr, config, produced, request, callpc, result, ret, gErr, gRunning,
                   firstFailed, watcher, clockVars, lastEv, secret, err, cause>>

\* Lines 84-90: the fill through c.TLS, the deferred Unlock, the return.
FillUnlock(t) ==
    LET ptr == TLSPtr(t[1], t[2])
        f == fillTLSFromSecret(Deref(ptr), secret[t], ClusterOf(t), Entry(t).Cert)
    IN  /\ pc[t] = "locked"
        /\ result' = [result EXCEPT ![ptr[1]][ptr[2]] = f.tls]
        /\ mutex' = [mutex EXCEPT ![t[1]] = Unlock(@)]
        /\ TaskReturns(t, Mask(f.err))
        /\ UNCHANGED <<searcher, ctorErr, config, produced, request, callpc, ret,
                       watcher, clockVars, lastEv, secret, cause>>

\* g.Wait() that returns as soon as one task has failed.
WaitFirstError(c) ==
    /\ request[c].op \in BundleOps
    /\ callpc[c] = "running"
    /\ gRunning[c] = 0 \/ gErr[c] # NoErr
    /\ callpc' = [callpc EXCEPT ![c] = "returned"]
    /\ ret' = [ret EXCEPT ![c] =
                 bundleReturn([f \in FieldsOf(request[c]) |-> result[c][f]], gErr[c])]
    /\ UNCHANGED <<searcher, ctorErr, config, produced, request, result, mutex, gErr, gRunning, firstFailed,
                   pc, watcher, clockVars, lastEv, secret, err, cause>>

\* Lines 94-99: g.Wait() returns once every task has, and the method returns.
Wait(c) ==
    /\ request[c].op \in BundleOps
    /\ callpc[c] = "running"
    /\ gRunning[c] = 0
    /\ callpc' = [callpc EXCEPT ![c] = "returned"]
    /\ ret' = [ret EXCEPT ![c] =
                 bundleReturn([f \in FieldsOf(request[c]) |-> result[c][f]], gErr[c])]
    /\ UNCHANGED <<searcher, ctorErr, config, produced, request, result, mutex, gErr, gRunning, firstFailed,
                   pc, watcher, clockVars, lastEv, secret, err, cause>>

(***************************************************************************)
(* The specifications.  Spec: two calls run concurrently on one Searcher,  *)
(* or one call runs a bundle of two kinds; a timer may fire at any moment. *)
(* SpecTimed: one call, with the seconds counted.                          *)
(***************************************************************************)
Alone(requests) == {[c \in Calls |-> IF c = "call1" THEN r ELSE NoRequest] : r \in requests}

\* Two calls at once, for different clusters.
Concurrent(requests) ==
    {rs \in [Calls -> requests] : \A c, d \in Calls : c # d => rs[c].clusterID # rs[d].clusterID}

Init ==
    InitWith({cfg \in Configs : cfg.WatchTimeout = 0},
             Concurrent(ConcurrentRequests) \cup Alone(TwoKindsRequests))

Step ==
    \/ \E c \in Calls : StartCall(c)
    \/ \E t \in Tasks : OpenWatch(t)
    \/ \E t \in Tasks : RecvEvent(t)
    \/ \E t \in Tasks : RecvClosed(t)
    \/ \E t \in Tasks : Timeout(t)
    \/ \E c \in Calls : SearchTLSFinish(c)
    \/ \E t \in Tasks : TaskSearchFailed(t)
    \/ \E t \in Tasks : Lock(t)
    \/ \E t \in Tasks : FillUnlock(t)
    \/ \E c \in Calls : Wait(c)

Next == Step \/ \E t \in Tasks : TimerFires(t)

Spec == Init /\ [][Next]_vars

InitTimed == InitWith(Configs, Alone(SingleRequests))

NextTimed == Step \/ Tick

SpecTimed == InitTimed /\ [][NextTimed]_vars

\* SpecTimed with what the runtime guarantees: time passes, a goroutine that
\* can open its watch does, and a goroutine whose timer channel is ready
\* again and again is run.  Nothing is assumed of the events of the store.
Fairness ==
    /\ WF_vars(Tick)
    /\ \A t \in Tasks : WF_vars(OpenWatch(t)) /\ SF_vars(Timeout(t))

SpecFair == SpecTimed /\ Fairness

(***************************************************************************)
(* SpecNames: a producer of secrets names and labels one secret after the  *)
(* other with K8sSecretName and K8sSecretLabels; no search runs.           *)
(***************************************************************************)
CertKinds == {AllCerts[i] : i \in DOMAIN AllCerts}

ProduceSecret(clusterID, certificate) ==
    /\ Len(produced) < MaxProduced
    /\ produced' = Append(produced,
                      [clusterID |-> clusterID, certificate |-> certificate,
                       name |-> K8sSecretName(clusterID, certificate),
                       labels |-> K8sSecretLabels(clusterID, certificate)])
    /\ UNCHANGED <<config, searcher, ctorErr, request, callVars, clockVars, pc, watcher,
                   lastEv, secret, err, cause>>

InitNames ==
    InitWith({cfg \in Configs : cfg.K8sClient = "client" /\ cfg.Logger = "logger" /\ cfg.WatchTimeout = 0},
             {[c \in Calls |-> NoRequest]})

NextNames == \E clusterID \in ClusterIDs, certificate \in CertKinds : ProduceSecret(clusterID, certificate)

SpecNames == InitNames /\ [][NextNames]_vars

(***************************************************************************)
(* What the claims speak of.                                               *)
(***************************************************************************)
TasksOf(c) == {<<c, i>> : i \in DOMAIN certificates(request[c])}

\* search has returned in task t.
Searched(t) == pc[t] \in {"searched", "locked", "done"}

IsSecret(object) == object.goType = "*corev1.Secret" /\ ~object.isNil

\* The labels of the secret are those task t asked for.
LabelsMatch(object, t) ==
    /\ Label(object, clusterLabel) = ClusterOf(t)
    /\ Label(object, certificateLabel) = Entry(t).Cert

WellFormed(object) == DataKeys \subseteq DOMAIN object.Data

\* The TLS value a well-formed secret holds.
Decoded(object) ==
    [CA |-> object.Data["ca"], Crt |-> object.Data["crt"], Key |-> object.Data["key"]]

\* Task t was ended by an Added event that carried a secret.
GotSecret(t) == Searched(t) /\ lastEv[t].Type = Added /\ IsSecret(lastEv[t].Object)

(***************************************************************************)
(* C1.  When the watch of a SearchTLS call delivers an Added event whose   *)
(* secret carries the requested cluster and certificate labels and the     *)
(* data keys "ca", "crt" and "key", the call returns no error and a TLS    *)
(* whose CA, Crt and Key are exactly the secret's "ca", "crt" and "key".   *)
(***************************************************************************)
C1_SearchTLSReturnsSecretData ==
    \A c \in Calls :
        LET t == <<c, 1>>
        IN  (/\ request[c].op = "SearchTLS"
             /\ callpc[c] = "returned"
             /\ GotSecret(t)
             /\ LabelsMatch(lastEv[t].Object, t)
             /\ WellFormed(lastEv[t].Object))
            => /\ ret[c].err = NoErr
               /\ ret[c].value = Decoded(lastEv[t].Object)

C1_Witness ==
    \E c \in Calls :
        /\ request[c].op = "SearchTLS"
        /\ callpc[c] = "returned"
        /\ GotSecret(<<c, 1>>)
        /\ LabelsMatch(lastEv[<<c, 1>>].Object, <<c, 1>>)
        /\ WellFormed(lastEv[<<c, 1>>].Object)
        /\ ret[c].value.Crt = <<"crt", request[c].clusterID, request[c].cert>>

(***************************************************************************)
(* C2.  As claimed: a search that no Added event, Error event or closure   *)
(* has ended within watchTimeout of the opening of its watch fails with    *)
(* the timeout error, no sooner than watchTimeout and no later than        *)
(* watchTimeout + Slack after the opening, whatever events it ignored      *)
(* meanwhile.  So no search still waits later than that, every timeout     *)
(* falls within those bounds, and no search is ended later by an event.    *)
(***************************************************************************)
C2_TimeoutWithinBoundsOfOpening ==
    \A t \in Tasks :
        /\ pc[t] = "select" => elapsed[t] <= searcher.watchTimeout + Slack
        /\ (Searched(t) /\ cause[t] = TimerFired.Type)
              => /\ err[t].kind = timeoutError
                 /\ elapsed[t] >= searcher.watchTimeout
                 /\ elapsed[t] <= searcher.watchTimeout + Slack
        /\ (Searched(t) /\ cause[t] \in {Added, Error, ChannelClosed.Type})
              => elapsed[t] <= searcher.watchTimeout + Slack

(***************************************************************************)
(* C3.  A search that opened a watch session stops it exactly once on its  *)
(* way out, whatever ended it: the session is open and unstopped while the *)
(* search waits, closed with one Stop once the search has returned, and    *)
(* never stopped when no session was opened; a call that has returned      *)
(* leaves no session open.                                                 *)
(***************************************************************************)
C3_WatchReleasedExactlyOnce ==
    /\ \A t \in Tasks :
          /\ pc[t] = "select" => watcher[t] = [open |-> TRUE, stops |-> 0]
          /\ (Searched(t) /\ cause[t] # WatchFailed.Type)
                => watcher[t] = [open |-> FALSE, stops |-> 1]
          /\ (pc[t] \in {"none", "watch"} \/ cause[t] = WatchFailed.Type)
                => watcher[t] = NoWatcher
    /\ \A c \in Calls :
          callpc[c] = "returned" =>
              \A t \in TasksOf(c) : pc[t] = "done" /\ ~watcher[t].open

\* A bundle has returned: one search was ended by the timer, its sibling by
\* an Added event, and each has stopped its session once.
C3_Witness ==
    \E c \in Calls :
        /\ callpc[c] = "returned"
        /\ cause[<<c, 1>>] = TimerFired.Type
        /\ cause[<<c, 2>>] = Added
        /\ watcher[<<c, 1>>].stops = 1
        /\ watcher[<<c, 2>>].stops = 1

\* The three wakeups that end a search in failure.
FailureCauses == {ChannelClosed.Type, Error, TimerFired.Type}

(***************************************************************************)
(* C4.  As claimed: the closed channel, the Error event and the timer each *)
(* end a search with an error of a kind of its own.                        *)
(***************************************************************************)
C4_Original_ThreeDistinctKinds ==
    \A t, u \in Tasks :
        (/\ Searched(t) /\ Searched(u)
         /\ cause[t] \in FailureCauses /\ cause[u] \in FailureCauses
         /\ cause[t] # cause[u])
        => err[t].kind # err[u].kind

(***************************************************************************)
(* C4, amended.  The closed channel and the Error event both end a search  *)
(* with an error of the kind executionFailedError, which differ in their   *)
(* message alone; the timer ends it with an error of the kind              *)
(* timeoutError, which is another kind.                                    *)
(***************************************************************************)
C4_TwoKindsForThreeCauses ==
    /\ timeoutError # executionFailedError
    /\ \A t \in Tasks :
          Searched(t) =>
              /\ cause[t] = ChannelClosed.Type => err[t].kind = executionFailedError
              /\ cause[t] = Error => err[t].kind = executionFailedError
              /\ cause[t] = TimerFired.Type => err[t].kind = timeoutError
    /\ \A t, u \in Tasks :
          (Searched(t) /\ Searched(u) /\ cause[t] = ChannelClosed.Type /\ cause[u] = Error)
          => err[t].msg # err[u].msg

\* One search of a bundle was ended by the closed channel, its sibling by an
\* Error event.
C4_Witness ==
    \E c \in Calls :
        /\ Searched(<<c, 1>>) /\ cause[<<c, 1>>] = ChannelClosed.Type
        /\ Searched(<<c, 2>>) /\ cause[<<c, 2>>] = Error
        /\ err[<<c, 1>>].kind = err[<<c, 2>>].kind

\* How the search of task t would have ended without the Deleted events.
CauseWithoutDeleted(t) ==
    IF timerNoDeleted[t] > searcher.watchTimeout + Slack THEN TimerFired.Type ELSE cause[t]

(***************************************************************************)
(* C5.  As claimed: a Deleted event does not end a search, and the search  *)
(* ends as it would have ended had the Deleted events not been delivered.  *)
(* Without them the timer of the select would stand at timerNoDeleted, so  *)
(* the search would have timed out before any wakeup that comes when       *)
(* timerNoDeleted is past watchTimeout + Slack.                            *)
(***************************************************************************)
C5_DeletedEventsChangeNothing ==
    \A t \in Tasks :
        /\ lastEv[t].Type = Deleted =>
              pc[t] = "select" /\ secret[t] = NilSecret /\ err[t] = NoErr
        /\ (Searched(t) /\ cause[t] # WatchFailed.Type) =>
              cause[t] = CauseWithoutDeleted(t)

\* The first key of "ca", "crt", "key" that the secret's data lacks.
FirstMissing(object) ==
    LET order == <<"ca", "crt", "key">>
        i == CHOOSE j \in 1..3 :
                /\ order[j] \notin DOMAIN object.Data
                /\ \A k \in 1..(j - 1) : order[k] \in DOMAIN object.Data
    IN  order[i]

\* The zero value of what call c returns.
ZeroValue(c) ==
    IF request[c].op = "SearchTLS" THEN ZeroTLS ELSE [f \in FieldsOf(request[c]) |-> ZeroTLS]

\* Call c is a call of one of the methods of the source, whose lists have
\* one entry.
OneKind(c) == Len(certificates(request[c])) = 1

(***************************************************************************)
(* C6.  When the Added event that ends a search carries a secret whose     *)
(* cluster label or certificate label is not the requested one, the search *)
(* has left its loop on that event, the task fails with an error of the    *)
(* kind invalidSecretError, and the call returns an error and the zero     *)
(* value; SearchTLS and every bundle method of one kind return that very   *)
(* error.                                                                  *)
(***************************************************************************)
C6_MismatchedLabelsRejected ==
    /\ \A t \in Tasks : lastEv[t].Type = Added => Searched(t)
    /\ \A c \in Calls : \A t \in TasksOf(c) :
          (/\ callpc[c] = "returned"
           /\ GotSecret(t)
           /\ ~LabelsMatch(lastEv[t].Object, t))
          => /\ err[t].kind = invalidSecretError
             /\ ret[c].err # NoErr
             /\ ret[c].value = ZeroValue(c)
             /\ OneKind(c) => Cause(ret[c].err) = Cause(err[t])

\* A bundle method and a SearchTLS call have each returned after an Added
\* event whose secret carries the other certificate label.
C6_Witness ==
    \E c, d \in Calls :
        /\ request[c].op = "SearchTLS" /\ request[d].op \in BundleOps
        /\ callpc[c] = "returned" /\ callpc[d] = "returned"
        /\ \A t \in {<<c, 1>>, <<d, 1>>} :
              /\ GotSecret(t)
              /\ Label(lastEv[t].Object, clusterLabel) = ClusterOf(t)
              /\ Label(lastEv[t].Object, certificateLabel) # Entry(t).Cert
              /\ WellFormed(lastEv[t].Object)

(***************************************************************************)
(* C7.  When the secret that ends a search carries the requested labels    *)
(* and lacks one of the data keys "ca", "crt", "key", the task fails with  *)
(* an error of the kind invalidSecretError that names the first key        *)
(* missing in the order ca, crt, key, and the call returns an error and    *)
(* the zero value, with none of the fields that were present.              *)
(***************************************************************************)
C7_MissingKeyRejected ==
    \A c \in Calls : \A t \in TasksOf(c) :
        (/\ callpc[c] = "returned"
         /\ GotSecret(t)
         /\ LabelsMatch(lastEv[t].Object, t)
         /\ ~WellFormed(lastEv[t].Object))
        => /\ Cause(err[t]) = [kind |-> invalidSecretError,
                               msg |-> <<"key missing", FirstMissing(lastEv[t].Object)>>]
           /\ ret[c].err # NoErr
           /\ ret[c].value = ZeroValue(c)
           /\ OneKind(c) => Cause(ret[c].err) = Cause(err[t])

\* SearchTLS has returned after a secret that holds "ca" and "key" and lacks
\* "crt": the fill had written CA through the pointer before it failed.
C7_Witness ==
    \E c \in Calls :
        /\ request[c].op = "SearchTLS"
        /\ callpc[c] = "returned"
        /\ GotSecret(<<c, 1>>)
        /\ LabelsMatch(lastEv[<<c, 1>>].Object, <<c, 1>>)
        /\ DOMAIN lastEv[<<c, 1>>].Object.Data = {"ca", "key"}
        /\ result[c]["tls"].CA # NilBytes
        /\ ret[c].value = ZeroTLS

\* The search and the decode of task t succeed: the Added event that ended
\* the search carried a secret with the requested labels and the three keys.
Succeeds(t) ==
    /\ GotSecret(t)
    /\ LabelsMatch(lastEv[t].Object, t)
    /\ WellFormed(lastEv[t].Object)

(***************************************************************************)
(* C8.  A bundle method that has returned has returned either no error and *)
(* the struct in which the field of every member holds the values decoded  *)
(* from that member's secret, when the search and decode of every member   *)
(* succeeded, or else an error and the zero struct.                        *)
(***************************************************************************)
C8_BundleAllOrNothing ==
    \A c \in Calls :
        (request[c].op \in BundleOps /\ callpc[c] = "returned") =>
            IF \A t \in TasksOf(c) : Succeeds(t)
            THEN /\ ret[c].err = NoErr
                 /\ DOMAIN ret[c].value = FieldsOf(request[c])
                 /\ \A t \in TasksOf(c) :
                       ret[c].value[Entry(t).TLS] = Decoded(lastEv[t].Object)
            ELSE /\ ret[c].err # NoErr
                 /\ ret[c].value = ZeroValue(c)

\* A bundle of two kinds has returned: the first member succeeded and its
\* field of the result struct was filled, the second failed.
C8_Witness ==
    \E c \in Calls :
        /\ request[c].op = "SearchTwoKinds"
        /\ callpc[c] = "returned"
        /\ Succeeds(<<c, 1>>)
        /\ result[c][Entry(<<c, 1>>).TLS] = Decoded(lastEv[<<c, 1>>].Object)
        /\ ~Succeeds(<<c, 2>>)
        /\ ret[c].value = ZeroValue(c)

(***************************************************************************)
(* C9.  The error a bundle method returns is the error of a task of its    *)
(* own that failed: the one whose error reached the task group first,      *)
(* masked once more.                                                       *)
(***************************************************************************)
C9_BundleErrorIsFirstTaskError ==
    \A c \in Calls :
        (request[c].op \in BundleOps /\ callpc[c] = "returned" /\ ret[c].err # NoErr) =>
            /\ firstFailed[c] \in DOMAIN certificates(request[c])
            /\ err[<<c, firstFailed[c]>>] # NoErr
            /\ ret[c].err = Mask(err[<<c, firstFailed[c]>>])
            /\ ~Succeeds(<<c, firstFailed[c]>>)

\* Both tasks of a bundle failed, the second before the first, with errors
\* of different kinds.
C9_Witness ==
    \E c \in Calls :
        /\ callpc[c] = "returned"
        /\ firstFailed[c] = 2
        /\ err[<<c, 1>>] # NoErr
        /\ err[<<c, 1>>].kind # err[<<c, 2>>].kind
        /\ ret[c].err.kind = err[<<c, 2>>].kind

(***************************************************************************)
(* What a call returns when it runs alone: a function of its request, of   *)
(* the wakeup that ends each of its searches and, for a bundle, of the     *)
(* member that fails first.                                                *)
(***************************************************************************)
\* search, from the wakeup that ends it.
SearchAlone(wakeup, selector) ==
    CASE wakeup = ChannelClosed -> Return(NilSecret, closedChannelError(selector))
      [] wakeup = TimerFired -> Return(NilSecret, timerError(selector))
      [] wakeup = WatchFailed -> Return(NilSecret, watchFailedError(selector, watchError))
      [] OTHER -> onEvent(wakeup, selector)

\* One member: the search, then the fill of a zero TLS.
MemberAlone(req, i, wakeup) ==
    LET entry == certificates(req)[i]
        s == SearchAlone(wakeup, LabelSelector(entry.Cert, req.clusterID))
    IN  IF s.err # NoErr THEN [tls |-> ZeroTLS, err |-> s.err]
        ELSE fillTLSFromSecret(ZeroTLS, s.secret, req.clusterID, entry.Cert)

CallAlone(req, wakeups, first) ==
    IF req.op = "SearchTLS"
    THEN searchTLSReturn(MemberAlone(req, 1, wakeups[1]).tls, MemberAlone(req, 1, wakeups[1]).err)
    ELSE LET member(f) == CHOOSE i \in DOMAIN certificates(req) : certificates(req)[i].TLS = f
         IN  bundleReturn(
                [f \in FieldsOf(req) |-> MemberAlone(req, member(f), wakeups[member(f)]).tls],
                IF first = 0 THEN NoErr
                ELSE Mask(MemberAlone(req, first, wakeups[first]).err))

(***************************************************************************)
(* C10.  Whatever another call does on the same Searcher meanwhile, a call *)
(* that has returned has returned what it returns when it runs alone and   *)
(* its searches are ended by the same wakeups.                             *)
(***************************************************************************)
C10_ConcurrentCallsDoNotInterfere ==
    \A c \in Calls :
        callpc[c] = "returned" =>
            ret[c] = CallAlone(request[c], [i \in Members |-> lastEv[<<c, i>>]], firstFailed[c])

\* One call has returned the TLS of its secret while a call for another
\* cluster, its search over, holds its own lock and is about to fill.
C10_Witness ==
    \E c, d \in Calls :
        /\ c # d
        /\ callpc[c] = "returned" /\ callpc[d] = "running"
        /\ request[c].clusterID # request[d].clusterID
        /\ Succeeds(<<c, 1>>) /\ ret[c].err = NoErr
        /\ ret[c].value # ZeroValue(c)
        /\ pc[<<d, 1>>] = "locked" /\ mutex[d] = 1
        /\ Succeeds(<<d, 1>>)


(***************************************************************************)
(* C11.  The name of a produced secret is its cluster ID, a hyphen and its *)
(* certificate kind, in this order; its labels are the four of k8s.go, the *)
(* current and the legacy certificate label both holding the kind, the     *)
(* current and the legacy cluster label both holding the cluster ID; and   *)
(* two secrets produced from the same inputs have the same name and the    *)
(* same labels, whatever was produced between them.                        *)
(***************************************************************************)
C11_NameAndLabelsOfInputs ==
    \A i \in DOMAIN produced :
        LET p == produced[i] IN
        /\ p.name = p.clusterID \o "-" \o p.certificate
        /\ DOMAIN p.labels = {"giantswarm.io/certificate", "giantswarm.io/cluster-id",
                              "clusterComponent", "clusterID"}
        /\ p.labels["giantswarm.io/certificate"] = p.certificate
        /\ p.labels["clusterComponent"] = p.certificate
        /\ p.labels["giantswarm.io/cluster-id"] = p.clusterID
        /\ p.labels["clusterID"] = p.clusterID
        /\ \A j \in DOMAIN produced :
              produced[j].clusterID = p.clusterID /\ produced[j].certificate = p.certificate
                  => produced[j].name = p.name /\ produced[j].labels = p.labels

\* Two secrets of one cluster and different kinds have been produced.
C11_Witness ==
    /\ Len(produced) = 2
    /\ produced[1].clusterID = produced[2].clusterID
    /\ produced[1].certificate = "api" /\ produced[2].certificate = "calico-etcd-client"
    /\ produced[2].name = "c-abc12-calico-etcd-client"


(***************************************************************************)
(* C12.  NewSearcher given a Config with no store client or no logger has  *)
(* returned an error of the kind invalidConfigError and no Searcher, and no *)
(* call is ever made; given both, it has returned no error and a Searcher   *)
(* that holds them and waits config.WatchTimeout seconds when that is not   *)
(* zero, and 3 seconds when it is.                                          *)
(***************************************************************************)
C12_NewSearcherValidatesAndDefaults ==
    IF config.K8sClient = "nil" \/ config.Logger = "nil"
    THEN /\ ctorErr.kind = invalidConfigError
         /\ searcher = NoSearcher
         /\ \A c \in Calls : callpc[c] = "idle"
    ELSE /\ ctorErr = NoErr
         /\ searcher.k8sClient = config.K8sClient
         /\ searcher.logger = config.Logger
         /\ searcher.watchTimeout = IF config.WatchTimeout # 0 THEN config.WatchTimeout ELSE 3

\* A search of a Searcher built with no WatchTimeout has timed out, three
\* seconds after the watch was opened.
C12_Witness ==
    /\ config.WatchTimeout = 0
    /\ \E t \in Tasks :
          Searched(t) /\ cause[t] = TimerFired.Type /\ elapsed[t] = 3


(***************************************************************************)
(* C13.  The mutex of a bundle call is held by a task only after its       *)
(* search has returned a secret and released its watch, and until its      *)
(* decode has written the result: the holder stands between m.Lock() and   *)
(* its return.  No task that opens its watch or waits in the select holds  *)
(* it, so a task whose search has returned a secret can take the mutex, or *)
(* the task that holds it can finish its decode and free it, however many  *)
(* siblings still wait.                                                    *)
(***************************************************************************)
C13_LockHeldOnlyForDecode ==
    \A c \in Calls :
        /\ mutex[c] # 0 =>
              LET h == <<c, mutex[c]>>
              IN  /\ pc[h] = "locked"
                  /\ secret[h] # NilSecret /\ err[h] = NoErr
                  /\ watcher[h] = [open |-> FALSE, stops |-> 1]
        /\ \A t \in TasksOf(c) :
              /\ pc[t] \in {"watch", "select"} => mutex[c] # t[2]
              /\ (request[c].op \in BundleOps /\ pc[t] = "searched" /\ err[t] = NoErr) =>
                    ENABLED (Lock(t) \/ \E h \in TasksOf(c) : FillUnlock(h))

\* One task of a bundle of two has decoded its secret and returned while
\* its sibling still waits in the select.
C13_Witness ==
    \E c \in Calls :
        /\ request[c].op = "SearchTwoKinds"
        /\ pc[<<c, 1>>] = "select"
        /\ pc[<<c, 2>>] = "done" /\ Succeeds(<<c, 2>>)
        /\ result[c][Entry(<<c, 2>>).TLS] # ZeroTLS
        /\ mutex[c] = 0


(***************************************************************************)
(* C14.  A bundle call that has returned has no task left: every task of   *)
(* the call has returned, none holds the mutex, and every watch that was    *)
(* opened has been stopped, once.  The failure of one task stops no other:  *)
(* while a task has failed and a sibling still waits, the call has not      *)
(* returned and the sibling's watch is open; and every task that has        *)
(* returned has returned the error its own last wakeup gives it.            *)
(***************************************************************************)
C14_BundleWaitsForEveryTask ==
    \A c \in Calls :
        request[c] # NoRequest /\ request[c].op \in BundleOps =>
            /\ callpc[c] = "returned" =>
                  /\ gRunning[c] = 0 /\ mutex[c] = 0
                  /\ \A t \in TasksOf(c) :
                        /\ pc[t] = "done"
                        /\ ~watcher[t].open
                        /\ watcher[t].stops = IF cause[t] = WatchFailed.Type THEN 0 ELSE 1
            /\ \A t \in TasksOf(c) :
                  /\ (gErr[c] # NoErr /\ pc[t] = "select") =>
                        callpc[c] = "running" /\ watcher[t] = [open |-> TRUE, stops |-> 0]
                  /\ pc[t] = "done" =>
                        err[t] = Mask(MemberAlone(request[c], t[2], lastEv[t]).err)

\* One task of a bundle of two has failed and returned; the call is still
\* running and the sibling still waits in the select, its watch open.
C14_Witness ==
    \E c \in Calls :
        /\ request[c].op = "SearchTwoKinds"
        /\ callpc[c] = "running"
        /\ firstFailed[c] = 2 /\ pc[<<c, 2>>] = "done" /\ gErr[c].kind = timeoutError
        /\ pc[<<c, 1>>] = "select" /\ watcher[<<c, 1>>].open


(***************************************************************************)
(* C15.  As claimed: every search that has begun returns in the end,       *)
(* whatever events the store delivers and whenever it delivers them.       *)
(***************************************************************************)
C15_EverySearchReturns ==
    \A t \in Tasks : pc[t] \in {"watch", "select"} ~> Searched(t)


\* Error e names the selector where the errors search makes name it.
NamesSelector(e, selector) == Len(e.msg) >= 2 /\ e.msg[2] = selector

(***************************************************************************)
(* C16.  As claimed: a search whose watch could not be opened fails with   *)
(* the error of the store, and that error names the label selector of the  *)
(* search.                                                                 *)
(***************************************************************************)
C16_Original_OpenFailureNamesSelector ==
    \A t \in Tasks :
        cause[t] = WatchFailed.Type =>
            err[t].kind = backendError /\ NamesSelector(err[t], SelectorOf(t))

(***************************************************************************)
(* C16.  A search whose watch could not be opened has returned no secret   *)
(* and the error of the store as the store made it, of the same kind and   *)
(* with the same message, which does not name the selector; it has waited  *)
(* no time and received no event, and no watch has been opened or stopped. *)
(* The call, once returned, has returned that error and the zero value.    *)
(***************************************************************************)
C16_OpenFailureReturnsStoreError ==
    \A t \in Tasks :
        cause[t] = WatchFailed.Type =>
            /\ Searched(t)
            /\ secret[t] = NilSecret
            /\ Cause(err[t]) = Cause(watchError)
            /\ ~NamesSelector(err[t], SelectorOf(t))
            /\ lastEv[t] = WatchFailed
            /\ timer[t] = 0 /\ elapsed[t] = 0
            /\ watcher[t] = NoWatcher
            /\ callpc[t[1]] = "returned" =>
                  /\ Cause(ret[t[1]].err) = Cause(watchError)
                  /\ ret[t[1]].value = ZeroValue(t[1])

\* A bundle call has returned the error of a watch that did not open.
C16_Witness ==
    \E t \in Tasks :
        /\ cause[t] = WatchFailed.Type
        /\ request[t[1]].op = "SearchMonitoring"
        /\ callpc[t[1]] = "returned"
        /\ ret[t[1]].err.kind = backendError


(***************************************************************************)
(* C17.  When the last event of a search is an Added event whose payload   *)
(* is no secret, or is a nil secret, the search has returned on that event *)
(* with no secret and an error of the kind wrongTypeError, which is none   *)
(* of the kinds of the invalid secret, the store's own error, the closed   *)
(* channel or Error event, and the timer; its watch has been stopped,      *)
(* once; and the call, once returned, has returned an error of that kind   *)
(* and the zero value.                                                     *)
(***************************************************************************)
C17_WrongPayloadRejected ==
    \A t \in Tasks :
        (lastEv[t].Type = Added /\ ~IsSecret(lastEv[t].Object)) =>
            /\ Searched(t)
            /\ secret[t] = NilSecret
            /\ err[t].kind = wrongTypeError
            /\ err[t].kind \notin {invalidSecretError, backendError, executionFailedError,
                                   timeoutError}
            /\ watcher[t] = [open |-> FALSE, stops |-> 1]
            /\ callpc[t[1]] = "returned" =>
                  /\ ret[t[1]].err.kind = wrongTypeError
                  /\ ret[t[1]].value = ZeroValue(t[1])

\* A SearchTLS call has returned after an Added event that carried a pod,
\* which came after the search had already waited.
C17_Witness ==
    \E t \in Tasks :
        /\ request[t[1]].op = "SearchTLS"
        /\ lastEv[t] = [Type |-> Added, Object |-> NotASecret]
        /\ elapsed[t] > 0
        /\ callpc[t[1]] = "returned"
        /\ ret[t[1]].err.kind = wrongTypeError


(***************************************************************************)
(* C18.  An event that is neither Added, Deleted nor Error, such as a      *)
(* Modified event, ends no search: a search whose last event is one is     *)
(* still in the select, with no secret and no error, its watch open and    *)
(* its timer started anew on that event, as after a Deleted event.  So a   *)
(* search that has returned a secret has returned the secret of an Added   *)
(* event, and a secret that comes in Modified events alone is never        *)
(* returned.                                                               *)
(***************************************************************************)
C18_OtherEventsIgnored ==
    \A t \in Tasks :
        /\ lastEv[t].Type \in {Modified, Deleted} =>
              /\ pc[t] = "select"
              /\ secret[t] = NilSecret /\ err[t] = NoErr
              /\ watcher[t] = [open |-> TRUE, stops |-> 0]
              /\ timer[t] <= elapsed[t]
        /\ secret[t] # NilSecret =>
              /\ Searched(t)
              /\ lastEv[t].Type = Added /\ secret[t] = lastEv[t].Object
        /\ (callpc[t[1]] = "returned" /\ ret[t[1]].err = NoErr) => lastEv[t].Type # Modified

\* A search still waits after a Modified event that carried the secret it
\* looks for, labels and data keys all there.
C18_Witness ==
    \E t \in Tasks :
        /\ lastEv[t].Type = Modified
        /\ LabelsMatch(lastEv[t].Object, t) /\ WellFormed(lastEv[t].Object)
        /\ pc[t] = "select"
        /\ elapsed[t] > 0 /\ timer[t] = 0

=============================================================================
